---- MODULE Spec2Model ----
(***************************************************************************)
(* jack_midi_cmd.c: text commands read from stdin by the control loop      *)
(* (main), turned into MIDI events by parse_message, handed through the    *)
(* event_queue ring buffer (queue_event) to the JACK process callback      *)
(* (process), with client_state as the Run/Exit state machine.             *)
(***************************************************************************)
EXTENDS Integers, Sequences, FiniteSets, TLC

(***************************************************************************)
(* Bounds of the model.                                                    *)
(***************************************************************************)
\* Number of slots of event_queue.  The source sets 256 (line 19); the model
\* runs the same modulo arithmetic on a ring small enough to fill and wrap.
JACK_MIDI_QUEUE_SIZE == 3

\* Lines read from stdin over one run.
MaxLines == 3

\* The same, in the runs checked for progress.
MaxLinesLive == 2

\* The same, in the runs of the control loop alone over every form of line.
MaxParseLines == 1

(***************************************************************************)
(* Characters and text lines.  A line is the sequence of characters fgets  *)
(* stores in buf, the trailing newline included.                           *)
(***************************************************************************)
NL == "\n"

L_exit      == <<"e","x","i","t",NL>>
L_exitNOW   == <<"e","x","i","t","N","O","W",NL>>
L_reconnect == <<"r","e","c","o","n","n","e","c","t",NL>>
L_help      == <<"h","e","l","p",NL>>
L_helpme    == <<"h","e","l","p"," ","m","e",NL>>
L_dot       == <<"."," ","9","0"," ","3","C"," ","7","F",NL>>
L_CC        == <<"C","C"," ","1"," ","2",NL>>
L_N         == <<"N"," ","6","0"," ","1","0","0",NL>>
L_n         == <<"n"," ","6","0"," ","0",NL>>
L_2         == <<"2"," ","1"," ","2",NL>>
L_2one      == <<"2"," ","1",NL>>
L_1         == <<"1"," ","2","5","4",NL>>
L_garbage   == <<"g","a","r","b","a","g","e"," ","t","e","x","t",NL>>

InputLines ==
  { L_exit, L_exitNOW, L_reconnect, L_help, L_helpme, L_dot, L_CC, L_N,
    L_2, L_2one, L_1, L_garbage }

\* Arguments as they are typed, each with the value it denotes: integers in
\* C notation for %i (decimal, 0x for hexadecimal, a sign), hexadecimal
\* digits for %x.
IntArgs ==
  { [txt |-> <<"0">>,             val |-> 0],
    [txt |-> <<"6","0">>,         val |-> 60],
    [txt |-> <<"1","2","7">>,     val |-> 127],
    [txt |-> <<"1","2","8">>,     val |-> 128],
    [txt |-> <<"2","5","4">>,     val |-> 254],
    [txt |-> <<"3","0","0">>,     val |-> 300],
    [txt |-> <<"-","1">>,         val |-> 0 - 1],
    [txt |-> <<"0","x","3","C">>, val |-> 60] }

HexArgs ==
  { [txt |-> <<"9","0">>,     val |-> 144],
    [txt |-> <<"3","C">>,     val |-> 60],
    [txt |-> <<"7","F">>,     val |-> 127],
    [txt |-> <<"1","f","f">>, val |-> 511] }

\* the line "<word> <arg> ... <arg>\n"
RECURSIVE ArgLine(_, _)
ArgLine(word, args) ==
  IF args = <<>> THEN word \o <<NL>>
  ELSE ArgLine(word \o <<" ">> \o args[1].txt, Tail(args))

\* every line made of a command word and arguments
ArgLines ==
  {ArgLine(<<".">>, <<s, a, b>>) : s \in HexArgs, a \in HexArgs, b \in HexArgs}
    \cup {ArgLine(w, <<a, b>>) :
            w \in {<<"C","C">>, <<"N">>, <<"n">>, <<"2">>},
            a \in IntArgs, b \in IntArgs}
    \cup {ArgLine(w, <<a>>) : w \in {<<"2">>, <<"1">>}, a \in IntArgs}

AllLines == InputLines \cup {L_n} \cup ArgLines

(***************************************************************************)
(* C library functions used by parse_message.                              *)
(***************************************************************************)
\* isspace()
IsSpace(c) == c \in {" ", NL, "\t", "\r"}

Digits == <<"0","1","2","3","4","5","6","7","8","9","a","b","c","d","e","f">>
UpperDigits == <<"0","1","2","3","4","5","6","7","8","9","A","B","C","D","E","F">>

\* value of a digit character, 16 when it is none
DigitVal(c) ==
  IF \E i \in 1..16 : Digits[i] = c
    THEN (CHOOSE i \in 1..16 : Digits[i] = c) - 1
    ELSE IF \E i \in 1..16 : UpperDigits[i] = c
      THEN (CHOOSE i \in 1..16 : UpperDigits[i] = c) - 1
      ELSE 16

\* Variant: a comparison of the whole line, newline included, with the word
strncmp_eq_whole(msg, lit) == msg = lit \o <<NL>>

\* strncmp(msg, lit, n) == 0, for n = Len(lit): msg begins with lit
\* (a shorter msg ends in NUL, which differs from every character of lit)
strncmp_eq(msg, lit) ==
  /\ Len(msg) >= Len(lit)
  /\ \A i \in 1..Len(lit) : msg[i] = lit[i]

\* white space in a format, and before a conversion: skip any amount of it
RECURSIVE skip_ws(_, _)
skip_ws(msg, p) ==
  IF p <= Len(msg) /\ IsSpace(msg[p]) THEN skip_ws(msg, p + 1) ELSE p

\* the digits of a number in the given base, from position p with value v
RECURSIVE scan_digits(_, _, _, _)
scan_digits(msg, p, base, v) ==
  IF p <= Len(msg) /\ DigitVal(msg[p]) < base
    THEN scan_digits(msg, p + 1, base, v * base + DigitVal(msg[p]))
    ELSE [pos |-> p, val |-> v]

\* one %i or %x conversion at position p: white space, an optional sign,
\* the base prefix (%i: 0x is hexadecimal, 0 octal, else decimal; %x: an
\* optional 0x), at least one digit.  ok is FALSE on a matching failure.
scan_number(msg, p, conv) ==
  LET q    == skip_ws(msg, p)
      neg  == q <= Len(msg) /\ msg[q] = "-"
      r    == IF q <= Len(msg) /\ msg[q] \in {"-", "+"} THEN q + 1 ELSE q
      has0x == /\ r + 1 <= Len(msg)
               /\ msg[r] = "0"
               /\ msg[r + 1] \in {"x", "X"}
      base == IF conv = "%x" \/ has0x THEN 16
              ELSE IF r <= Len(msg) /\ msg[r] = "0" THEN 8 ELSE 10
      s    == IF has0x THEN r + 2 ELSE r
      d    == scan_digits(msg, s, base, 0)
  IN  [ok  |-> d.pos > s,
       pos |-> d.pos,
       val |-> IF neg THEN 0 - d.val ELSE d.val]

\* sscanf(msg, fmt, &param[0], ...): fmt is the sequence of directives, "ws"
\* for white space, "%i" or "%x" for a conversion, any other a literal
\* character.  Stops at the first directive that fails; param holds what the
\* conversions before it stored.
RECURSIVE sscanf_from(_, _, _, _, _)
sscanf_from(msg, p, fmt, k, param) ==
  IF k > Len(fmt) THEN param
  ELSE IF fmt[k] = "ws"
    THEN sscanf_from(msg, skip_ws(msg, p), fmt, k + 1, param)
  ELSE IF fmt[k] \in {"%i", "%x"}
    THEN LET r == scan_number(msg, p, fmt[k])
         IN  IF r.ok
               THEN sscanf_from(msg, r.pos, fmt, k + 1, Append(param, r.val))
               ELSE param
  ELSE IF p <= Len(msg) /\ msg[p] = fmt[k]
    THEN sscanf_from(msg, p + 1, fmt, k + 1, param)
  ELSE param

\* the converted values, in order; sscanf's return value is their number
sscanf(msg, fmt) == sscanf_from(msg, 1, fmt, 1, <<>>)

(***************************************************************************)
(* my_midi_event_t (lines 55-59): time, size and the 16 bytes of buffer,   *)
(* kept as a sequence indexed from 1 (buffer[i] of the code is             *)
(* buffer[i + 1] here).                                                    *)
(***************************************************************************)
BufferLen == 16

\* a byte, or a size, that the code has not assigned
Uninit == 0 - 1

\* Variant: the value without the mask
BitAnd_nomask(v, mask) == v

\* v & mask on a two's complement int, for mask = 0xff or 0x7f
BitAnd(v, mask) == v % (mask + 1)

\* one slot of the static, zero-initialised event_queue (line 61)
ZeroEvent == [time |-> 0, size |-> 0, buffer |-> [i \in 1..BufferLen |-> 0]]

\* the local `event` of parse_message after `event.time = 0` (lines 209-211)
LocalEvent ==
  [time |-> 0, size |-> Uninit, buffer |-> [i \in 1..BufferLen |-> Uninit]]

\* event.size = n; event.buffer[i] = bytes[i + 1] for the bytes given
SetBytes(bytes) ==
  [LocalEvent EXCEPT
     !.size = Len(bytes),
     !.buffer = [i \in 1..BufferLen |->
                   IF i <= Len(bytes) THEN bytes[i] ELSE Uninit]]

\* the macro THREEBYTES (lines 213-218), up to its queue_event call
THREEBYTES(A, B, C) ==
  SetBytes(<<BitAnd(A, 255), BitAnd(B, 127), BitAnd(C, 127)>>)

(***************************************************************************)
(* parse_message (lines 207-257) up to its call of queue_event: what it    *)
(* returns, whether it sets client_state = Exit, and the events it hands   *)
(* to queue_event (none or one).                                           *)
(***************************************************************************)
Outcome(ret, exit, events) == [ret |-> ret, exit |-> exit, events |-> events]

parse_message(msg) ==
  LET dot == sscanf(msg, <<".", "ws", "%x", "ws", "%x", "ws", "%x", "ws">>)
      cc  == sscanf(msg, <<"C", "C", "ws", "%i", "ws", "%i", "ws">>)
      on  == sscanf(msg, <<"N", "ws", "%i", "ws", "%i", "ws">>)
      off == sscanf(msg, <<"n", "ws", "%i", "ws", "%i", "ws">>)
      two == sscanf(msg, <<"2", "ws", "%i", "ws">>)
      one == sscanf(msg, <<"1", "ws", "%i", "ws">>)
  IN  IF strncmp_eq(msg, <<"e","x","i","t">>)
        THEN Outcome(0, TRUE, <<>>)
      ELSE IF strncmp_eq(msg, <<"r","e","c","o","n","n","e","c","t">>)
        THEN Outcome(1, FALSE, <<>>)
      ELSE IF strncmp_eq(msg, <<"h","e","l","p">>)
        THEN Outcome(0, FALSE, <<>>)
      ELSE IF 3 = Len(dot)
        THEN Outcome(0, FALSE, <<THREEBYTES(dot[1], dot[2], dot[3])>>)
      ELSE IF 2 = Len(cc)
        THEN Outcome(0, FALSE, <<THREEBYTES(176, cc[1], cc[2])>>)
      ELSE IF 2 = Len(on)
        THEN Outcome(0, FALSE, <<THREEBYTES(144, on[1], on[2])>>)
      ELSE IF 2 = Len(off)
        THEN Outcome(0, FALSE, <<THREEBYTES(128, off[1], off[2])>>)
      ELSE IF 2 = Len(two)
        \* param[1] is never assigned by this sscanf
        THEN Outcome(0, FALSE, <<SetBytes(<<BitAnd(two[1], 255), Uninit>>)>>)
      ELSE IF 1 = Len(one)
        THEN Outcome(0, FALSE, <<SetBytes(<<BitAnd(one[1], 255)>>)>>)
      ELSE Outcome(0, FALSE, <<>>)

(***************************************************************************)
(* State.                                                                  *)
(***************************************************************************)
VARIABLES
  client_state,         \* "Run" or "Exit" (lines 50-53)
  event_queue,          \* slot index 0..JACK_MIDI_QUEUE_SIZE-1 -> event
  queued_events_start,  \* write index, advanced by queue_event
  queued_events_end,    \* read index, advanced by process
  j_client,             \* "client" while the JACK client is open, else "NULL"
  jackd,                \* TRUE while the JACK server runs this client
  stdin,                \* what select found readable: <<line>>, EOF, or <<>>
  nread,                \* number of lines that have arrived on stdin
  buf,                  \* the line fgets read last (main's buf)
  cns,                  \* main's index into the port arguments
  connects,             \* the port_connect calls of the reconnect under way
  mpc,                  \* where the control context (main) is
  me,                   \* queue_event's argument while it runs
  slot,                 \* the slot index queue_event's memcpy writes to
  pending,              \* queue_event's stores not yet visible in memory
  ppc,                  \* where the realtime context (process) is
  out,                  \* the jack_midi_event_write calls of the last cycle
  \* history, read by no action:
  dropped,              \* TRUE when queue_event returned at line 201 since process was last entered
  accepted,             \* every event queue_event went on to store, in order
  emitted,              \* every event process wrote, over all cycles, in order
  completed,            \* number of queue_event calls that stored and returned
  cycle,                \* what process found when it was last entered
  exit_parsed,          \* TRUE once parse_message met a line beginning "exit"
  timeouts,             \* select timeouts since client_state became Exit
  late                  \* lines read and events accepted since it became Exit

queue_vars == <<event_queue, queued_events_start, queued_events_end>>
main_vars == <<stdin, nread, buf, cns, connects, mpc, me, slot, pending>>
rt_vars == <<ppc, out>>
hist_vars == <<dropped, accepted, emitted, completed, cycle, exit_parsed,
               timeouts, late>>
vars == <<client_state, queue_vars, j_client, jackd, main_vars, rt_vars,
          hist_vars>>

\* the [JACK-port]* arguments, argv[optind .. argc-1]
PortTargets == <<"synth:midi_in", "system:midi_playback_1">>

\* The stores of queue_event: memcpy (line 203) copies time and size, which
\* lie side by side, and the buffer; line 204 stores the write index.
PayloadStores == {"time_size", "buffer"}
AllStores == PayloadStores \cup {"start"}

NoEvent == <<>>
\* end of input: what no line is, as a line holds its newline at least
EOF == << <<>> >>

\* the state at line 297: the client is active, the ports are connected,
\* the signal handlers are installed
Init ==
  /\ client_state = "Run"
  /\ event_queue = [i \in 0..(JACK_MIDI_QUEUE_SIZE - 1) |-> ZeroEvent]
  /\ queued_events_start = 0
  /\ queued_events_end = 0
  /\ j_client = "client"
  /\ jackd = TRUE
  /\ stdin = <<>>
  /\ nread = 0
  /\ buf = <<>>
  /\ cns = 1
  /\ connects = <<>>
  /\ mpc = "while"
  /\ me = NoEvent
  /\ slot = 0
  /\ pending = {}
  /\ ppc = "idle"
  /\ out = <<>>
  /\ dropped = FALSE
  /\ accepted = <<>>
  /\ emitted = <<>>
  /\ completed = 0
  /\ cycle = [end |-> 0, emitted |-> 0, completed |-> 0, empty |-> TRUE,
              dropped |-> FALSE]
  /\ exit_parsed = FALSE
  /\ timeouts = 0
  /\ late = [lines |-> 0, events |-> 0]

(***************************************************************************)
(* The realtime context: process (lines 80-93), one step per statement.    *)
(***************************************************************************)
\* what jack_midi_event_write (lines 85-89) is given: the time, and `size`
\* bytes of the buffer
Written(e) == [time |-> e.time, size |-> e.size,
               data |-> SubSeq(e.buffer, 1, e.size)]

\* Variant: process without jack_midi_clear_buffer (line 82)
process_enter_noclear ==
  /\ ppc = "idle"
  /\ j_client = "client"
  /\ jackd
  /\ ppc' = "test"
  /\ cycle' = [end |-> queued_events_end, emitted |-> Len(emitted),
               completed |-> completed,
               empty |-> queued_events_end = queued_events_start,
               dropped |-> dropped]
  /\ dropped' = FALSE
  /\ UNCHANGED <<client_state, queue_vars, j_client, jackd, main_vars, out,
                 accepted, emitted, completed, exit_parsed, timeouts, late>>

\* lines 81-82: JACK calls process; the cycle's buffer is cleared
process_enter ==
  /\ ppc = "idle"
  /\ j_client = "client"
  /\ jackd
  /\ out' = <<>>
  /\ ppc' = "test"
  /\ cycle' = [end |-> queued_events_end, emitted |-> Len(emitted),
               completed |-> completed,
               empty |-> queued_events_end = queued_events_start,
               dropped |-> dropped]
  /\ dropped' = FALSE
  /\ UNCHANGED <<client_state, queue_vars, j_client, jackd, main_vars,
                 accepted, emitted, completed, exit_parsed, timeouts, late>>

\* Variant: the loop does not end while queue_event is storing
process_test_waits ==
  /\ ppc = "test"
  /\ ppc' = IF queued_events_end /= queued_events_start THEN "write"
            ELSE IF mpc = "qe_store" THEN "test"
            ELSE "idle"
  /\ UNCHANGED <<client_state, queue_vars, j_client, jackd, main_vars, out,
                 hist_vars>>

\* line 84: while (queued_events_end != queued_events_start); line 92 when
\* the loop ends
process_test ==
  /\ ppc = "test"
  /\ ppc' = IF queued_events_end /= queued_events_start
              THEN "write" ELSE "idle"
  /\ UNCHANGED <<client_state, queue_vars, j_client, jackd, main_vars, out,
                 hist_vars>>

\* lines 85-89: jack_midi_event_write of the slot at the read index
process_write ==
  /\ ppc = "write"
  /\ out' = Append(out, Written(event_queue[queued_events_end]))
  /\ emitted' = Append(emitted, Written(event_queue[queued_events_end]))
  /\ ppc' = "advance"
  /\ UNCHANGED <<client_state, queue_vars, j_client, jackd, main_vars,
                 dropped, accepted, completed, cycle, exit_parsed, timeouts,
                 late>>

\* Variant: the read index advances without wrapping
process_advance_nowrap ==
  /\ ppc = "advance"
  /\ queued_events_end' = queued_events_end + 1
  /\ ppc' = "test"
  /\ UNCHANGED <<client_state, event_queue, queued_events_start, j_client,
                 jackd, main_vars, out, hist_vars>>

\* line 90: the read index advances
process_advance ==
  /\ ppc = "advance"
  /\ queued_events_end' = (queued_events_end + 1) % JACK_MIDI_QUEUE_SIZE
  /\ ppc' = "test"
  /\ UNCHANGED <<client_state, event_queue, queued_events_start, j_client,
                 jackd, main_vars, out, hist_vars>>

(***************************************************************************)
(* Asynchronous notifications.                                             *)
(***************************************************************************)
\* lines 95-98: the JACK server shuts the client down, once; it calls
\* process no more
jack_shutdown ==
  /\ j_client = "client"
  /\ jackd
  /\ jackd' = FALSE
  /\ client_state' = "Exit"
  /\ UNCHANGED <<queue_vars, j_client, main_vars, rt_vars, hist_vars>>

\* Variant: the handler closes the client itself
catchsig_cleanup ==
  /\ mpc /= "done"
  /\ client_state' = "Exit"
  /\ j_client' = "NULL"
  /\ UNCHANGED <<queue_vars, jackd, main_vars, rt_vars, hist_vars>>

\* lines 136-142: SIGHUP or SIGINT, any time after lines 290-291
catchsig ==
  /\ mpc /= "done"
  /\ client_state' = "Exit"
  /\ UNCHANGED <<queue_vars, j_client, jackd, main_vars, rt_vars, hist_vars>>

(***************************************************************************)
(* The control context: queue_event (lines 199-205).                       *)
(***************************************************************************)
\* Variant: a full test that keeps two slots free
QueueFull_two_free(start, end) ==
  \/ ((start + 1) % JACK_MIDI_QUEUE_SIZE) = end
  \/ ((start + 2) % JACK_MIDI_QUEUE_SIZE) = end

\* line 200: the full test
QueueFull(start, end) == ((start + 1) % JACK_MIDI_QUEUE_SIZE) = end

\* Variant: queue_event without the test of lines 200-202
queue_event_test_nocheck ==
  /\ mpc = "queue_event"
  /\ slot' = queued_events_start
  /\ pending' = AllStores
  /\ accepted' = Append(accepted, Written(me))
  /\ late' = IF client_state = "Exit" /\ late.events < 2
               THEN [late EXCEPT !.events = @ + 1] ELSE late
  /\ mpc' = "qe_store"
  /\ UNCHANGED <<client_state, queue_vars, j_client, jackd, stdin, nread,
                 buf, cns, connects, me, rt_vars, dropped, emitted,
                 completed, cycle, exit_parsed, timeouts>>

\* lines 200-202: return when full (and parse_message returns, line 256);
\* else the memcpy of line 203 and the index store of line 204 are issued
queue_event_test ==
  /\ mpc = "queue_event"
  /\ IF QueueFull(queued_events_start, queued_events_end)
       THEN /\ dropped' = TRUE
            /\ mpc' = "prompt"
            /\ me' = NoEvent
            /\ UNCHANGED <<slot, pending, accepted, late>>
       ELSE /\ slot' = queued_events_start
            /\ pending' = AllStores
            /\ accepted' = Append(accepted, Written(me))
            /\ late' = IF client_state = "Exit" /\ late.events < 2
                         THEN [late EXCEPT !.events = @ + 1] ELSE late
            /\ mpc' = "qe_store"
            /\ UNCHANGED <<me, dropped>>
  /\ UNCHANGED <<client_state, queue_vars, j_client, jackd, stdin, nread,
                 buf, cns, connects, rt_vars, emitted, completed, cycle,
                 exit_parsed, timeouts>>

\* The order in which the stores of lines 203-204 reach memory.  The indices
\* are plain ints and the slots plain memory, written here and read by
\* process with no barrier and no atomic operation between: the build (the
\* compiler, the processor's store ordering) decides the order, so any
\* pending store may be the next to become visible.
MayCommit(st, pend) == st \in pend

\* the same stores in the order the statements are written: the payload
\* first, the index last
InProgramOrder(st, pend) == st \in pend /\ (st = "start" => pend = {"start"})

\* memory after one store of lines 203-204
StoreEffect(st, q, e, i) ==
  IF st = "time_size" THEN [q EXCEPT ![i].time = e.time, ![i].size = e.size]
  ELSE IF st = "buffer" THEN [q EXCEPT ![i].buffer = e.buffer]
  ELSE q

\* one store of lines 203-204 becomes visible; after the last, queue_event
\* returns (line 205), and parse_message after it (line 256)
queue_event_store(ordered) ==
  /\ mpc = "qe_store"
  /\ \E st \in pending :
       /\ IF ordered THEN InProgramOrder(st, pending)
                     ELSE MayCommit(st, pending)
       /\ pending' = pending \ {st}
       /\ event_queue' = StoreEffect(st, event_queue, me, slot)
       /\ IF st = "start"
            THEN /\ queued_events_start' = (slot + 1) % JACK_MIDI_QUEUE_SIZE
                 /\ cycle' = IF ppc /= "idle"
                                THEN [cycle EXCEPT !.empty = FALSE]
                                ELSE cycle
            ELSE UNCHANGED <<queued_events_start, cycle>>
       /\ IF pending' = {}
            THEN /\ mpc' = "prompt"
                 /\ me' = NoEvent
                 /\ completed' = completed + 1
            ELSE UNCHANGED <<mpc, me, completed>>
  /\ UNCHANGED <<client_state, queued_events_end, j_client, jackd, stdin,
                 nread, buf, cns, connects, slot, rt_vars, dropped,
                 accepted, emitted, exit_parsed, timeouts, late>>

InQueueEvent == mpc \in {"queue_event", "qe_store"}

(***************************************************************************)
(* The control context: the loop of main (lines 297-326).                  *)
(***************************************************************************)
\* line 298: while (client_state != Exit)
main_while ==
  /\ mpc = "while"
  /\ mpc' = IF client_state /= "Exit" THEN "select" ELSE "cleanup"
  /\ UNCHANGED <<client_state, queue_vars, j_client, jackd, stdin, nread,
                 buf, cns, connects, me, slot, pending, rt_vars, hist_vars>>

\* Variant: a timeout polls again without going back to the loop test
main_select_repoll(Lines, Max) ==
  /\ mpc = "select"
  /\ \/ /\ mpc' = "cleanup"
        /\ UNCHANGED <<stdin, nread, timeouts>>
     \/ /\ mpc' = "select"
        /\ timeouts' = IF client_state = "Exit" /\ timeouts < 2
                         THEN timeouts + 1 ELSE timeouts
        /\ UNCHANGED <<stdin, nread>>
     \/ /\ nread < Max
        /\ \E line \in Lines : stdin' = <<line>>
        /\ nread' = nread + 1
        /\ mpc' = "fgets"
        /\ UNCHANGED timeouts
     \/ /\ stdin' = EOF
        /\ mpc' = "fgets"
        /\ UNCHANGED <<nread, timeouts>>
  /\ UNCHANGED <<client_state, queue_vars, j_client, jackd, buf, cns,
                 connects, me, slot, pending, rt_vars, dropped, accepted,
                 emitted, completed, cycle, exit_parsed, late>>

\* lines 299-306: select on stdin with a timeout of one second.  Lines is
\* what the operator may type, Max how many lines over the run.
main_select(Lines, Max) ==
  /\ mpc = "select"
  /\ \/ \* rv < 0: break
        /\ mpc' = "cleanup"
        /\ UNCHANGED <<stdin, nread, timeouts>>
     \/ \* rv == 0: nothing to read within the second: continue
        /\ mpc' = "while"
        /\ timeouts' = IF client_state = "Exit" /\ timeouts < 2
                         THEN timeouts + 1 ELSE timeouts
        /\ UNCHANGED <<stdin, nread>>
     \/ \* stdin is readable: a line has arrived
        /\ nread < Max
        /\ \E line \in Lines : stdin' = <<line>>
        /\ nread' = nread + 1
        /\ mpc' = "fgets"
        /\ UNCHANGED timeouts
     \/ \* stdin is readable: it is at its end
        /\ stdin' = EOF
        /\ mpc' = "fgets"
        /\ UNCHANGED <<nread, timeouts>>
  /\ UNCHANGED <<client_state, queue_vars, j_client, jackd, buf, cns,
                 connects, me, slot, pending, rt_vars, dropped,
                 accepted, emitted, completed, cycle, exit_parsed, late>>

\* lines 307-309: fgets reads one line; break when it returns NULL
main_fgets ==
  /\ mpc = "fgets"
  /\ \/ \* a line
        /\ stdin /= EOF
        /\ buf' = stdin[1]
        /\ stdin' = <<>>
        /\ mpc' = "parse"
        /\ late' = IF client_state = "Exit" /\ late.lines < 2
                     THEN [late EXCEPT !.lines = @ + 1] ELSE late
     \/ \* end of input
        /\ stdin = EOF
        /\ mpc' = "cleanup"
        /\ UNCHANGED <<buf, stdin, late>>
     \/ \* read error
        /\ mpc' = "cleanup"
        /\ UNCHANGED <<buf, stdin, late>>
  /\ UNCHANGED <<client_state, queue_vars, j_client, jackd, nread, cns,
                 connects, me, slot, pending, rt_vars, dropped, accepted,
                 emitted, completed, cycle, exit_parsed, timeouts>>

\* parse_message on each line that can be typed, worked out once
ParseTable == [line \in AllLines |-> parse_message(line)]

\* parse_message applied to the line in buf
parsed == ParseTable[buf]

\* Variant: parse_message assigns client_state for every line: Exit for an
\* exit line, Run for any other
main_parse_resets ==
  /\ mpc = "parse"
  /\ client_state' = IF parsed.exit THEN "Exit" ELSE "Run"
  /\ exit_parsed' = (exit_parsed \/ parsed.exit)
  /\ IF parsed.events /= <<>>
       THEN /\ me' = parsed.events[1]
            /\ mpc' = "queue_event"
            /\ UNCHANGED <<cns, connects>>
       ELSE IF parsed.ret = 1
         THEN /\ cns' = 1
              /\ connects' = <<>>
              /\ mpc' = "reconnect"
              /\ UNCHANGED me
         ELSE /\ mpc' = "prompt"
              /\ UNCHANGED <<me, cns, connects>>
  /\ UNCHANGED <<queue_vars, j_client, jackd, stdin, nread, buf, slot,
                 pending, rt_vars, dropped, accepted, emitted, completed,
                 cycle, timeouts, late>>

\* Variant: a line that is no command and no event ends the run
main_parse_strict ==
  /\ mpc = "parse"
  /\ client_state' = IF parsed.exit \/ (parsed.events = <<>> /\ parsed.ret = 0)
                       THEN "Exit" ELSE client_state
  /\ exit_parsed' = (exit_parsed \/ parsed.exit)
  /\ IF parsed.events /= <<>>
       THEN /\ me' = parsed.events[1]
            /\ mpc' = "queue_event"
            /\ UNCHANGED <<cns, connects>>
       ELSE IF parsed.ret = 1
         THEN /\ cns' = 1
              /\ connects' = <<>>
              /\ mpc' = "reconnect"
              /\ UNCHANGED me
         ELSE /\ mpc' = "prompt"
              /\ UNCHANGED <<me, cns, connects>>
  /\ UNCHANGED <<queue_vars, j_client, jackd, stdin, nread, buf, slot,
                 pending, rt_vars, dropped, accepted, emitted,
                 completed, cycle, timeouts, late>>

\* line 310 and lines 207-257: parse_message(buf), up to the queue_event
\* call of an event line, else to its return and the switch of main
main_parse ==
  /\ mpc = "parse"
  /\ client_state' = IF parsed.exit THEN "Exit" ELSE client_state
  /\ exit_parsed' = (exit_parsed \/ parsed.exit)
  /\ IF parsed.events /= <<>>
       THEN /\ me' = parsed.events[1]
            /\ mpc' = "queue_event"
            /\ UNCHANGED <<cns, connects>>
       ELSE IF parsed.ret = 1
         THEN /\ cns' = 1
              /\ connects' = <<>>
              /\ mpc' = "reconnect"
              /\ UNCHANGED me
         ELSE /\ mpc' = "prompt"
              /\ UNCHANGED <<me, cns, connects>>
  /\ UNCHANGED <<queue_vars, j_client, jackd, stdin, nread, buf, slot,
                 pending, rt_vars, dropped, accepted, emitted,
                 completed, cycle, timeouts, late>>

\* Variant: the first connection that fails ends the attempts
main_reconnect_stops ==
  /\ mpc = "reconnect"
  /\ IF /\ cns <= Len(PortTargets)
        /\ (connects = <<>> \/ connects[Len(connects)].ok)
       THEN /\ \E ok \in BOOLEAN :
                 connects' = Append(connects,
                                    [port |-> PortTargets[cns], ok |-> ok])
            /\ cns' = cns + 1
            /\ UNCHANGED mpc
       ELSE /\ mpc' = "prompt"
            /\ UNCHANGED <<cns, connects>>
  /\ UNCHANGED <<client_state, queue_vars, j_client, jackd, stdin, nread,
                 buf, me, slot, pending, rt_vars, hist_vars>>

\* lines 311-315 and 130-134: port_connect for each port argument in turn;
\* jack_connect may fail, which is only reported
main_reconnect ==
  /\ mpc = "reconnect"
  /\ IF cns <= Len(PortTargets)
       THEN /\ \E ok \in BOOLEAN :
                 connects' = Append(connects,
                                    [port |-> PortTargets[cns], ok |-> ok])
            /\ cns' = cns + 1
            /\ UNCHANGED mpc
       ELSE /\ mpc' = "prompt"
            /\ UNCHANGED <<cns, connects>>
  /\ UNCHANGED <<client_state, queue_vars, j_client, jackd, stdin, nread,
                 buf, me, slot, pending, rt_vars, hist_vars>>

\* Variant: after the prompt the loop waits for input without its test
main_prompt_no_test ==
  /\ mpc = "prompt"
  /\ mpc' = "select"
  /\ connects' = <<>>
  /\ UNCHANGED <<client_state, queue_vars, j_client, jackd, stdin, nread,
                 buf, cns, me, slot, pending, rt_vars, hist_vars>>

\* line 319: the prompt, and back to the loop test
main_prompt ==
  /\ mpc = "prompt"
  /\ mpc' = "while"
  /\ connects' = <<>>
  /\ UNCHANGED <<client_state, queue_vars, j_client, jackd, stdin, nread,
                 buf, cns, me, slot, pending, rt_vars, hist_vars>>

\* lines 321-327 and 69-75: cleanup closes the client; main returns
cleanup ==
  /\ mpc = "cleanup"
  /\ j_client' = "NULL"
  /\ mpc' = "done"
  /\ UNCHANGED <<client_state, queue_vars, jackd, stdin, nread, buf, cns,
                 connects, me, slot, pending, rt_vars, hist_vars>>

(***************************************************************************)
(* Specifications.                                                         *)
(***************************************************************************)
\* the lines typed in the runs that interleave the two contexts
QueueLines == {L_N, L_1, L_exit, L_reconnect}

\* The two contexts interleave statement by statement.
Next ==
  \/ main_while
  \/ main_select(QueueLines, MaxLines)
  \/ main_fgets
  \/ main_parse
  \/ main_reconnect
  \/ main_prompt
  \/ cleanup
  \/ queue_event_test
  \/ queue_event_store(FALSE)
  \/ process_enter
  \/ process_test
  \/ process_write
  \/ process_advance
  \/ jack_shutdown
  \/ catchsig

Spec == Init /\ [][Next]_vars

\* Calls of queue_event and of process that do not overlap: process is
\* entered only while the control context is outside queue_event, and
\* queue_event runs only while process is not running.
SeqNext ==
  \/ main_while
  \/ main_select(InputLines, MaxLines)
  \/ main_fgets
  \/ main_parse
  \/ main_reconnect
  \/ main_prompt
  \/ cleanup
  \/ (ppc = "idle" /\ queue_event_test)
  \/ (ppc = "idle" /\ queue_event_store(FALSE))
  \/ (~InQueueEvent /\ process_enter)
  \/ process_test
  \/ process_write
  \/ process_advance
  \/ jack_shutdown
  \/ catchsig

SpecSeq == Init /\ [][SeqNext]_vars

\* The same interleaving with the stores of queue_event reaching memory in
\* the order of the statements (what a release store of the index and an
\* acquire load in process would give).
OrderedNext ==
  \/ main_while
  \/ main_select(QueueLines, MaxLines)
  \/ main_fgets
  \/ main_parse
  \/ main_reconnect
  \/ main_prompt
  \/ cleanup
  \/ queue_event_test
  \/ queue_event_store(TRUE)
  \/ process_enter
  \/ process_test
  \/ process_write
  \/ process_advance
  \/ jack_shutdown
  \/ catchsig

SpecOrdered == Init /\ [][OrderedNext]_vars

\* The control context is a thread of its own that the operating system
\* keeps scheduling: whenever it has a step to take, it takes one.
Control(Lines, Max) ==
  \/ main_while
  \/ main_select(Lines, Max)
  \/ main_fgets
  \/ main_parse
  \/ main_reconnect
  \/ main_prompt
  \/ cleanup
  \/ queue_event_test
  \/ queue_event_store(FALSE)

LiveNext ==
  \/ Control(QueueLines, MaxLinesLive)
  \/ process_enter
  \/ process_test
  \/ process_write
  \/ process_advance
  \/ jack_shutdown
  \/ catchsig

FairSpec ==
  Init /\ [][LiveNext]_vars /\ WF_vars(Control(QueueLines, MaxLinesLive))

\* The realtime context is a thread that runs process to its end once JACK
\* has called it; the control context may stop anywhere, for any time.
Realtime ==
  \/ process_test
  \/ process_write
  \/ process_advance

FairProcess == Init /\ [][LiveNext]_vars /\ WF_vars(Realtime)

\* The control context alone, with lines of every form and every argument.
ParseNext ==
  \/ main_while
  \/ main_select(AllLines, MaxParseLines)
  \/ main_fgets
  \/ main_parse
  \/ main_reconnect
  \/ main_prompt
  \/ cleanup
  \/ queue_event_test
  \/ queue_event_store(FALSE)

SpecParse == Init /\ [][ParseNext]_vars

(***************************************************************************)
(* Properties.                                                             *)
(***************************************************************************)
Capacity == JACK_MIDI_QUEUE_SIZE - 1

IsPrefix(s, t) == Len(s) <= Len(t) /\ \A i \in 1..Len(s) : s[i] = t[i]

\* the step of queue_event that takes the test of line 200
TestStep == mpc = "queue_event" /\ mpc' /= "queue_event"

\* C1: with calls that do not overlap, a call of queue_event is refused only
\* when Capacity accepted events are undrained (so up to Capacity calls on an
\* empty queue all succeed), and a drain writes exactly the events accepted
\* before it and not yet written, in order; after it every accepted event has
\* been written once, and the queue is empty until the next call.
C1_FifoDrain ==
  /\ [](ppc = "idle" =>
          /\ out = SubSeq(accepted, cycle.emitted + 1, cycle.completed)
          /\ emitted = SubSeq(accepted, 1, cycle.completed)
          /\ (Len(accepted) = cycle.completed =>
                queued_events_start = queued_events_end))
  /\ [][TestStep =>
          (mpc' = "prompt" <=> Len(accepted) - Len(emitted) = Capacity)]_vars

C1_Witness ==
  /\ ppc = "idle"
  /\ Len(out) = Capacity
  /\ out = SubSeq(accepted, cycle.emitted + 1, cycle.completed)
  /\ out[1] /= out[2]
  /\ queued_events_end < cycle.end
  /\ queued_events_start = queued_events_end

\* C2: queue_event returns without storing exactly when
\* (write + 1) mod C = read, and then changes no index and no slot; the
\* Capacity events queued before the refused call are what the next drain
\* writes, in order.
C2_FullDrop ==
  /\ [][TestStep =>
          LET full == (queued_events_start + 1) % JACK_MIDI_QUEUE_SIZE
                        = queued_events_end
          IN  /\ full => mpc' = "prompt" /\ UNCHANGED queue_vars
              /\ ~full => mpc' = "qe_store"]_vars
  /\ [](ppc = "idle" /\ cycle.dropped =>
          /\ Len(out) = Capacity
          /\ out = SubSeq(accepted, cycle.emitted + 1,
                          cycle.emitted + Capacity))

C2_Witness ==
  /\ ppc = "idle"
  /\ cycle.dropped
  /\ Len(out) = Capacity
  /\ out[1] /= out[2]

\* C3: what process has written so far is a prefix of what queue_event has
\* accepted so far.
C3_EmittedPrefix == IsPrefix(emitted, accepted)

\* C4: when process is about to read the slot at the read index, no store of
\* that slot's payload is still on its way.
C4_PayloadBeforeIndex ==
  ppc = "write" =>
    ~(mpc = "qe_store" /\ slot = queued_events_end
        /\ pending \cap PayloadStores /= {})

\* C5: once a cycle has ended, every event whose queue_event call had
\* returned before the cycle began has been written, at its place in the
\* order of the calls.
C5_CompletedAreEmitted ==
  ppc = "idle" =>
    \A i \in 1..cycle.completed :
      i <= Len(emitted) /\ emitted[i] = accepted[i]

\* C6: a cycle during which the queue stayed empty ends with nothing written
\* and the read index where it was.
C6_EmptyCycleSilent ==
  (ppc = "idle" /\ cycle.empty) =>
    /\ out = <<>>
    /\ queued_events_end = cycle.end
    /\ Len(emitted) = cycle.emitted

C6_Witness ==
  /\ ppc = "idle"
  /\ cycle.empty
  /\ cycle.emitted > 0
  /\ out = <<>>

\* C7: client_state starts as Run and changes only from Run to Exit.
C7_RunThenExit ==
  /\ client_state = "Run"
  /\ [][client_state' /= client_state =>
          client_state = "Run" /\ client_state' = "Exit"]_vars

C7_Witness ==
  /\ client_state = "Exit"
  /\ exit_parsed
  /\ ~jackd
  /\ mpc = "done"

BeginsWithExit(line) ==
  Len(line) >= 4 /\ SubSeq(line, 1, 4) = <<"e", "x", "i", "t">>

\* C8: parsing a line that begins with "exit" sets client_state to Exit,
\* hands nothing to queue_event and changes no queue variable; afterwards the
\* loop only goes on to the prompt, the loop test and cleanup, and buf still
\* holds that line.
C8_ExitStopsLoop ==
  /\ [][(mpc = "parse" /\ mpc' /= "parse" /\ BeginsWithExit(buf)) =>
          /\ client_state' = "Exit"
          /\ exit_parsed'
          /\ mpc' = "prompt"
          /\ UNCHANGED <<queue_vars, me, accepted, nread>>]_vars
  /\ [](exit_parsed =>
          /\ client_state = "Exit"
          /\ mpc \in {"prompt", "while", "cleanup", "done"}
          /\ BeginsWithExit(buf))
  /\ [][exit_parsed => UNCHANGED <<nread, buf, accepted>>]_vars

C8_Witness ==
  /\ exit_parsed
  /\ buf = L_exitNOW
  /\ accepted /= <<>>
  /\ mpc = "done"

\* C9: once the loop has been left, client_state is Exit.
C9_FatalDrivesExit == mpc \in {"cleanup", "done"} => client_state = "Exit"

\* C10: once client_state is Exit the control loop sits through at most one
\* select timeout, and it goes on to close the client.
C10_ExitLeavesLoop ==
  /\ [](timeouts <= 1)
  /\ (client_state = "Exit") ~> (mpc = "done" /\ j_client = "NULL")

C10_Witness ==
  /\ timeouts = 1
  /\ ~exit_parsed
  /\ nread = 0
  /\ mpc = "done"
  /\ j_client = "NULL"

(***************************************************************************)
(* The parser: what each form of line hands to queue_event.                *)
(***************************************************************************)
\* an event as jack_midi_event_write is given it: frame offset 0, the bytes
Bytes(data) == [time |-> 0, size |-> Len(data), data |-> data]

\* the event the grammar gives for each line of an event form but "2"
ExpectedPairs ==
  {<<ArgLine(<<".">>, <<s, a, b>>),
     Bytes(<<s.val % 256, a.val % 128, b.val % 128>>)>> :
       s \in HexArgs, a \in HexArgs, b \in HexArgs}
    \cup {<<ArgLine(<<"C","C">>, <<a, b>>),
            Bytes(<<176, a.val % 128, b.val % 128>>)>> :
              a \in IntArgs, b \in IntArgs}
    \cup {<<ArgLine(<<"N">>, <<a, b>>),
            Bytes(<<144, a.val % 128, b.val % 128>>)>> :
              a \in IntArgs, b \in IntArgs}
    \cup {<<ArgLine(<<"n">>, <<a, b>>),
            Bytes(<<128, a.val % 128, b.val % 128>>)>> :
              a \in IntArgs, b \in IntArgs}
    \cup {<<ArgLine(<<"1">>, <<a>>), Bytes(<<a.val % 256>>)>> : a \in IntArgs}

EventLines == {p[1] : p \in ExpectedPairs}

Expected ==
  [line \in EventLines |-> (CHOOSE p \in ExpectedPairs : p[1] = line)[2]]

\* the same for the lines "2 <int> <int>"
ExpectedTwo ==
  [line \in {ArgLine(<<"2">>, <<a, b>>) : a \in IntArgs, b \in IntArgs} |->
     LET a == CHOOSE x \in IntArgs :
                \E y \in IntArgs : line = ArgLine(<<"2">>, <<x, y>>)
         b == CHOOSE y \in IntArgs : line = ArgLine(<<"2">>, <<a, y>>)
     IN  Bytes(<<a.val % 256, b.val % 256>>)]

\* the line in buf has been parsed, and e is what was handed to queue_event
\* for it: its argument while the call is at its test, the last event
\* accepted afterwards
HandedOver(e) ==
  \/ mpc = "parse"
  \/ mpc = "queue_event" /\ Written(me) = e
  \/ /\ mpc /= "queue_event"
     /\ Len(accepted) > 0
     /\ accepted[Len(accepted)] = e

\* C11: once a line "2 <int> <int>" has been parsed, the event of size 2 with
\* byte0 = int0 & 0xFF and byte1 = int1 & 0xFF is the one handed to
\* queue_event.
C11_TwoByteEvent ==
  (buf \in DOMAIN ExpectedTwo /\ ~dropped) => HandedOver(ExpectedTwo[buf])

\* C12: once a line ". s a b", "CC a b", "N a b", "n a b" or "1 a" has been
\* parsed, the event the grammar gives for it is the one handed to
\* queue_event, and it is the only one: each line read accounts for at most
\* one event.
C12_ParsedEvents ==
  /\ (buf \in EventLines /\ ~dropped) => HandedOver(Expected[buf])
  /\ Len(accepted) + (IF mpc = "queue_event" THEN 1 ELSE 0) <= nread

C12_Witness ==
  /\ mpc = "prompt"
  /\ buf = <<"N"," ","3","0","0"," ","-","1",NL>>
  /\ accepted = <<[time |-> 0, size |-> 3, data |-> <<144, 44, 127>>]>>
  /\ queued_events_start = 1

BeginsWith(line, word) ==
  Len(line) >= Len(word) /\ SubSeq(line, 1, Len(word)) = word

\* lines that match no rule of the grammar
InvalidLines ==
  {L_garbage, L_2one} \cup {ArgLine(<<"2">>, <<a>>) : a \in IntArgs}

HelpOrInvalid(line) ==
  BeginsWith(line, <<"h","e","l","p">>) \/ line \in InvalidLines

\* the step of main that calls parse_message
ParseStep == mpc = "parse" /\ mpc' /= "parse"

\* C13: parsing a line that begins with "help", or one that matches no rule,
\* changes no index, no slot and not client_state and hands nothing to
\* queue_event; the loop goes on to the prompt and the loop test, and while
\* client_state is Run, to waiting for the next line.
C13_HelpInvalidNoEffect ==
  /\ [][(ParseStep /\ HelpOrInvalid(buf)) =>
          /\ mpc' = "prompt"
          /\ UNCHANGED <<queue_vars, client_state, j_client, me, accepted>>]_vars
  /\ [][(HelpOrInvalid(buf) /\ mpc = "prompt" /\ mpc' /= mpc) =>
          mpc' = "while"]_vars
  /\ [][(HelpOrInvalid(buf) /\ mpc = "while" /\ mpc' /= mpc
           /\ client_state = "Run") => mpc' = "select"]_vars

C13_Witness ==
  /\ mpc = "fgets"
  /\ buf = L_helpme
  /\ stdin = <<L_garbage>>
  /\ nread = 2
  /\ client_state = "Run"
  /\ accepted = <<>>
  /\ queued_events_start = 0

\* the ports of the port_connect calls made so far
Attempted == [i \in 1..Len(connects) |-> connects[i].port]

\* C14: parsing a line that begins with "reconnect" starts the connections
\* and queues nothing; each step connects the next port of PortTargets,
\* whatever the result of the one before; the loop goes on to the prompt when
\* every port has been tried once, in order; no step touches the queue or
\* client_state.
C14_ReconnectAllPorts ==
  /\ [][(ParseStep /\ BeginsWith(buf, <<"r","e","c","o","n","n","e","c","t">>))
          => /\ mpc' = "reconnect"
             /\ connects' = <<>>
             /\ UNCHANGED <<queue_vars, client_state, me, accepted>>]_vars
  /\ [][(mpc = "reconnect" /\ <<cns, mpc>>' /= <<cns, mpc>>) =>
          /\ UNCHANGED <<queue_vars, client_state, j_client, me, accepted>>
          /\ mpc' = "prompt" => Attempted = PortTargets
          /\ mpc' = "reconnect" =>
               /\ Len(connects') = Len(connects) + 1
               /\ connects'[Len(connects')].port = PortTargets[Len(connects')]
               /\ SubSeq(connects', 1, Len(connects)) = connects]_vars

C14_Witness ==
  /\ mpc = "prompt"
  /\ connects = <<[port |-> PortTargets[1], ok |-> FALSE],
                  [port |-> PortTargets[2], ok |-> TRUE]>>
  /\ client_state = "Run"
  /\ queued_events_start /= queued_events_end

\* a step of jack_shutdown, or of catchsig while client_state is Run
HandlerStep ==
  \/ jackd' /= jackd
  \/ client_state' /= client_state /\ mpc' = mpc

\* C15: a step of catchsig or jack_shutdown sets client_state to Exit and
\* changes no index, no slot, nothing of the control loop or of process, and
\* leaves the client open; the client is closed only by the cleanup of main.
C15_HandlersOnlySetExit ==
  /\ [][HandlerStep =>
          /\ client_state' = "Exit"
          /\ UNCHANGED <<queue_vars, j_client, main_vars, rt_vars>>]_vars
  /\ [][j_client' /= j_client =>
          mpc = "cleanup" /\ mpc' = "done" /\ j_client' = "NULL"]_vars

C15_Witness ==
  /\ client_state = "Exit"
  /\ ~exit_parsed
  /\ j_client = "client"
  /\ ~jackd
  /\ mpc = "qe_store"
  /\ queued_events_start /= queued_events_end

WellFormed(w) ==
  /\ w.time = 0
  /\ w.size \in 1..BufferLen
  /\ Len(w.data) = w.size
  /\ \A i \in 1..w.size : w.data[i] \in 0..255

\* C16: every event handed to queue_event, every event accepted and every
\* event process writes has time 0, a size in 1..16 and that many assigned
\* bytes; a line "2 <int>" hands nothing to queue_event.
C16_WellFormedEvents ==
  /\ me /= NoEvent => WellFormed(Written(me))
  /\ \A i \in 1..Len(accepted) : WellFormed(accepted[i])
  /\ \A i \in 1..Len(emitted) : WellFormed(emitted[i])
  /\ (buf \in InvalidLines /\ mpc /= "parse") =>
       mpc \notin {"queue_event", "qe_store"}

\* C17: both indices stay in 0..C-1; the write index changes only in
\* queue_event and the read index only in process, each by one modulo C.
C17_IndicesWrap ==
  /\ [](/\ queued_events_start \in 0..(JACK_MIDI_QUEUE_SIZE - 1)
        /\ queued_events_end \in 0..(JACK_MIDI_QUEUE_SIZE - 1))
  /\ [][queued_events_start' /= queued_events_start =>
          /\ mpc = "qe_store"
          /\ queued_events_start' =
               (queued_events_start + 1) % JACK_MIDI_QUEUE_SIZE
          /\ UNCHANGED <<queued_events_end, ppc>>]_vars
  /\ [][queued_events_end' /= queued_events_end =>
          /\ ppc = "advance"
          /\ queued_events_end' =
               (queued_events_end + 1) % JACK_MIDI_QUEUE_SIZE
          /\ UNCHANGED <<queued_events_start, mpc>>]_vars

C17_Witness ==
  /\ queued_events_start = 0
  /\ queued_events_end = 0
  /\ Len(accepted) = JACK_MIDI_QUEUE_SIZE
  /\ Len(emitted) = JACK_MIDI_QUEUE_SIZE
  /\ ppc = "idle"

\* calls of queue_event whose index store has reached memory
Published ==
  Len(accepted) - (IF mpc = "qe_store" /\ "start" \in pending THEN 1 ELSE 0)

\* slots process has read and released
Released == Len(emitted) - (IF ppc = "advance" THEN 1 ELSE 0)

\* slots from the read index up to the write index
Undrained ==
  (queued_events_start - queued_events_end) % JACK_MIDI_QUEUE_SIZE

\* C18: process reads each published slot once (what it has released and
\* what lies between the indices add up to what was published), and every
\* call of process returns, whatever the control context does or does not
\* do meanwhile.
C18_ProcessTerminates ==
  /\ [](Released + Undrained = Published)
  /\ (ppc /= "idle") ~> (ppc = "idle")

C18_Witness ==
  /\ ppc = "idle"
  /\ mpc = "qe_store"
  /\ pending /= {}
  /\ Len(out) = 1
  /\ queued_events_start = queued_events_end

\* C19: while a store of queue_event into a slot's payload is under way, that
\* slot is not among those from the read index up to the write index; the
\* events accepted and not yet released by process are at most C-1.
C19_NoOverwrite ==
  /\ (mpc = "qe_store" /\ pending \cap PayloadStores /= {}) =>
       (slot - queued_events_end) % JACK_MIDI_QUEUE_SIZE >= Undrained
  /\ Len(accepted) - Released <= Capacity

\* C20: after client_state has become Exit the loop reads at most one line
\* and queue_event accepts at most one event, and the loop waits for input
\* only after its test has found client_state to be Run.
C20_OneMoreLine ==
  /\ [](late.lines <= 1 /\ late.events <= 1)
  /\ [][(mpc' = "select" /\ mpc /= "select") =>
          mpc = "while" /\ client_state = "Run"]_vars

C20_Witness ==
  /\ late.lines = 1
  /\ late.events = 1
  /\ ~exit_parsed
  /\ mpc = "done"

====
